---- MODULE Spec2Model ----
(***************************************************************************)
(* State-machine model of jdy25mbt.py: the response cache keyed by command *)
(* code (JDYCharacteristicValueCache), the wait primitive built on the     *)
(* adapter's event loop (_wait_with_timeout), the session scope            *)
(* (__enter__/__exit__) and the Device accessors that sit on top of them.  *)
(*                                                                         *)
(* Control is single-threaded: the caller runs until it enters adp.run(),  *)
(* and only while adp.run() is driving the loop (pc = "run") are the       *)
(* value-changed handler, the timer callback and SIGINT dispatched.        *)
(***************************************************************************)
EXTENDS Integers, Sequences, FiniteSets, TLC

\* ------------------------------------------------------------------ bounds
\* Longest response payload a modelled notification carries.
MaxPayloadLen == 1

\* Longest module-version payload decoded.
MaxVersionLen == 3

\* Longest broadcast name written, in characters.
MaxNameLen == 2

\* ------------------------------------------------------- program constants
C_BROADCAST_NAME == 49410   \* 0xC102
C_ROLE           == 49417   \* 0xC109
C_MESH_MCLSS     == 49923   \* 0xC303, base of the key-slot codes
C_LEARN          == 49930   \* 0xC30A, base of the learner-slot codes
C_BAUD_RATE_SET  == 42469   \* 0xA5E5

\* The command codes of the other accessors and mutators of Device.
C_MODULE_SOFTWARE_VERSION == 49409   \* 0xC101
C_PASSWORD_VALUE == 49411   \* 0xC103
C_PASSWORD_TYPE == 49412   \* 0xC104
C_BAUD_RATE == 49413   \* 0xC105
C_POWER_ON_SLEEP == 49414   \* 0xC106
C_ADVERTISING_INTERVAL == 49415   \* 0xC107
C_TX_POWER == 49416   \* 0xC108
C_IBEACON_UUID == 49665   \* 0xC201
C_IBEACON_MAJOR == 49666   \* 0xC202
C_IBEACON_MINOR == 49667   \* 0xC203
C_IBEACON_SING == 49668   \* 0xC204
C_MESH_NETID == 49921   \* 0xC301
C_MESH_MADDR == 49922   \* 0xC302
C_SUBTYPE == 49929   \* 0xC309
C_DEVCLSS == 49936   \* 0xC310
C_KLABEL == 49937   \* 0xC311
C_KLTIME == 49938   \* 0xC312
C_KLRSSI == 49939   \* 0xC313
C_RESET_DEVICE == 41441   \* 0xA1E1
C_BROADCAST_NAME_SET == 41698   \* 0xA2E2
C_PASSWORD_TYPE_SET == 42212   \* 0xA4E4
C_DISCONNECT_DEVICE == 42726   \* 0xA6E6
C_TX_POWER_SET == 43497   \* 0xA9E9
C_RESTORE_DEVICE_CONFIG == 43754   \* 0xAAEA
C_ROLE_SET == 62725   \* 0xF505

\* Byte value carried by modelled payloads: 5 is Role.MESH_NETWORK.
PayloadBytes == {5}

\* Codes the modelled device answers with.
NotifCodes == {C_BROADCAST_NAME, C_ROLE, C_BAUD_RATE_SET}

\* Codes the caller passes to the cache's own read()/write().
RawCodes == {C_BROADCAST_NAME, C_BAUD_RATE_SET}

\* Slot indexes the caller tries, in and out of [1,5].
SlotIndexes == 0..6

\* BaudRate members the caller writes (B9600, B115200).
WrittenRates == {4, 8}

\* read_timeout arguments: 0 stands for None (both are falsy at line 490).
Timeouts == {0, 1}

\* Device(dev, adp, default_timeout=1), as the script and the docstring do.
DefaultTimeout == 1

\* Mutation: the key slots are numbered from zero.
KeySlotCode_ZeroBased(index) == C_MESH_MCLSS + index - 1

\* 0xC303 + index in read_key_param
KeySlotCode(index) == C_MESH_MCLSS + index

\* 0xC30A + index in read_learner_param
LearnerSlotCode(index) == C_LEARN + index

\* The read accessors that take no argument.
PlainReaders ==
    {"read_module_software_version", "read_broadcast_name",
     "read_password_value", "read_password_type", "read_baud_rate",
     "read_power_on_sleep", "read_advertising_interval",
     "read_tx_power", "read_role", "read_ibeacon_uuid",
     "read_ibeacon_major", "read_ibeacon_minor", "read_ibeacon_sing",
     "read_mesh_netid", "read_mesh_maddr", "read_mesh_mclss",
     "read_subtype", "read_learn", "read_devclss", "read_klabel",
     "read_kltime", "read_klrssi"}

\* The mutators.
Writers ==
    {"reset_device", "write_broadcast_name", "write_password_type",
     "write_baud_rate", "disconnect_device", "write_tx_power",
     "restore_device_config", "write_role"}

\* The logical registers of Device: an accessor or mutator, with its slot
\* index where it takes one (0 where it takes none).
Registers ==
    {<<op, 0>> : op \in PlainReaders \cup Writers}
        \cup {<<op, i>> : op \in {"read_key_param", "read_learner_param"},
                          i \in 1..5}

\* The command code the accessor or mutator op passes to the cache.
RegisterCode(op, arg) ==
    CASE op = "read_module_software_version" -> C_MODULE_SOFTWARE_VERSION
      [] op = "read_broadcast_name" -> C_BROADCAST_NAME
      [] op = "read_password_value" -> C_PASSWORD_VALUE
      [] op = "read_password_type" -> C_PASSWORD_TYPE
      [] op = "read_baud_rate" -> C_BAUD_RATE
      [] op = "read_power_on_sleep" -> C_POWER_ON_SLEEP
      [] op = "read_advertising_interval" -> C_ADVERTISING_INTERVAL
      [] op = "read_tx_power" -> C_TX_POWER
      [] op = "read_role" -> C_ROLE
      [] op = "read_ibeacon_uuid" -> C_IBEACON_UUID
      [] op = "read_ibeacon_major" -> C_IBEACON_MAJOR
      [] op = "read_ibeacon_minor" -> C_IBEACON_MINOR
      [] op = "read_ibeacon_sing" -> C_IBEACON_SING
      [] op = "read_mesh_netid" -> C_MESH_NETID
      [] op = "read_mesh_maddr" -> C_MESH_MADDR
      [] op = "read_mesh_mclss" -> C_MESH_MCLSS
      [] op = "read_subtype" -> C_SUBTYPE
      [] op = "read_learn" -> C_LEARN
      [] op = "read_devclss" -> C_DEVCLSS
      [] op = "read_klabel" -> C_KLABEL
      [] op = "read_kltime" -> C_KLTIME
      [] op = "read_klrssi" -> C_KLRSSI
      [] op = "reset_device" -> C_RESET_DEVICE
      [] op = "write_broadcast_name" -> C_BROADCAST_NAME_SET
      [] op = "write_password_type" -> C_PASSWORD_TYPE_SET
      [] op = "write_baud_rate" -> C_BAUD_RATE_SET
      [] op = "disconnect_device" -> C_DISCONNECT_DEVICE
      [] op = "write_tx_power" -> C_TX_POWER_SET
      [] op = "restore_device_config" -> C_RESTORE_DEVICE_CONFIG
      [] op = "write_role" -> C_ROLE_SET
      [] op = "read_key_param" -> KeySlotCode(arg)
      [] op = "read_learner_param" -> LearnerSlotCode(arg)

\* --------------------------------------------------------------- sequences
RECURSIVE SeqsUpTo(_, _)
SeqsUpTo(S, n) ==
    IF n = 0 THEN {<<>>}
    ELSE LET shorter == SeqsUpTo(S, n - 1)
         IN  shorter \cup {Append(s, b) : s \in shorter, b \in S}

Payloads == SeqsUpTo(PayloadBytes, MaxPayloadLen)

\* v[:n]
Prefix(v, n) == SubSeq(v, 1, IF Len(v) < n THEN Len(v) ELSE n)

\* v[n:]
Suffix(v, n) == SubSeq(v, n + 1, Len(v))

\* struct.pack('>H', cmd)
pack_H(cmd) == <<cmd \div 256, cmd % 256>>

\* struct.unpack('>H', b)[0]; struct.error unless b has exactly two bytes
unpack_H_ok(b) == Len(b) = 2
unpack_H(b) == b[1] * 256 + b[2]

\* dict.pop(cmd, None)
Pop(vals, cmd) == [k \in (DOMAIN vals) \ {cmd} |-> vals[k]]

\* Mutation: an entry that exists is kept (setdefault).
Store_KeepFirst(vals, cmd, payload) ==
    [k \in (DOMAIN vals) \cup {cmd} |->
        IF k \in DOMAIN vals THEN vals[k] ELSE payload]

\* dict[cmd] = payload
Store(vals, cmd, payload) ==
    [k \in (DOMAIN vals) \cup {cmd} |-> IF k = cmd THEN payload ELSE vals[k]]

EmptyCache == [k \in {} |-> <<>>]

\* ------------------------------------------------------------ Device codecs
\* Outcome of a call as the caller sees it: a value (the fields of the
\* returned object, as a tuple of numbers) or a raised exception.
Ok(val)    == [kind |-> "ok", exc |-> "", val |-> val]
Raise(exc) == [kind |-> "raise", exc |-> exc, val |-> <<>>]
NoResult   == [kind |-> "none", exc |-> "", val |-> <<>>]

IsCont(b) == b >= 128 /\ b <= 191

\* One step of the UTF-8 decoder behind str(payload, 'utf-8'): the number of
\* bytes the first character of p takes (0 when p starts no valid character)
\* and its code point.
utf8_first(p) ==
    LET b1 == p[1]
        n  == Len(p)
    IN  IF b1 < 128 THEN [n |-> 1, cp |-> b1]
        ELSE IF b1 >= 194 /\ b1 <= 223 /\ n >= 2 /\ IsCont(p[2])
            THEN [n |-> 2, cp |-> (b1 - 192) * 64 + (p[2] - 128)]
        ELSE IF /\ b1 >= 224 /\ b1 <= 239 /\ n >= 3
                /\ IsCont(p[2]) /\ IsCont(p[3])
                /\ (b1 = 224 => p[2] >= 160)
                /\ (b1 = 237 => p[2] <= 159)
            THEN [n |-> 3,
                  cp |-> (b1 - 224) * 4096 + (p[2] - 128) * 64 + (p[3] - 128)]
        ELSE IF /\ b1 >= 240 /\ b1 <= 244 /\ n >= 4
                /\ IsCont(p[2]) /\ IsCont(p[3]) /\ IsCont(p[4])
                /\ (b1 = 240 => p[2] >= 144)
                /\ (b1 = 244 => p[2] <= 143)
            THEN [n |-> 4,
                  cp |-> (b1 - 240) * 262144 + (p[2] - 128) * 4096
                         + (p[3] - 128) * 64 + (p[4] - 128)]
        ELSE [n |-> 0, cp |-> 0]

\* str(payload, 'utf-8'): the code points, or UnicodeDecodeError
RECURSIVE utf8_decode(_)
utf8_decode(p) ==
    IF p = <<>> THEN Ok(<<>>)
    ELSE LET f == utf8_first(p)
         IN  IF f.n = 0 THEN Raise("UnicodeDecodeError")
             ELSE LET rest == utf8_decode(Suffix(p, f.n))
                  IN  IF rest.kind = "raise" THEN rest
                      ELSE Ok(<<f.cp>> \o rest.val)

\* The bytes that bytes.rstrip() strips: space, \t, \n, \v, \f, \r
Whitespace == {32, 9, 10, 11, 12, 13}

\* payload.rstrip()
RECURSIVE rstrip(_)
rstrip(p) ==
    IF p # <<>> /\ p[Len(p)] \in Whitespace
    THEN rstrip(SubSeq(p, 1, Len(p) - 1))
    ELSE p

\* Mutation: the split is made at the last '=' (rsplit).
RECURSIVE split_eq_last_AtLastEq(_)
split_eq_last_AtLastEq(p) ==
    IF p = <<>> THEN <<>>
    ELSE IF p[Len(p)] = 61 THEN <<>>
    ELSE IF 61 \in {p[i] : i \in 1..Len(p)}
         THEN Append(split_eq_last_AtLastEq(SubSeq(p, 1, Len(p) - 1)), p[Len(p)])
         ELSE p

\* p.split(b'=', 1)[-1]: at most one split, made at the first '=' (61); the
\* last piece is what follows it, or all of p when p has no '='.
RECURSIVE split_eq_last(_)
split_eq_last(p) ==
    IF p = <<>> THEN <<>>
    ELSE IF p[1] = 61 THEN Suffix(p, 1)
    ELSE IF 61 \in {p[i] : i \in 1..Len(p)}
         THEN split_eq_last(Suffix(p, 1))
         ELSE p

\* str(p, 'ascii'): the code points, or UnicodeDecodeError
ascii_decode(p) ==
    IF \E i \in 1..Len(p) : p[i] > 127
    THEN Raise("UnicodeDecodeError")
    ELSE Ok(p)

\* str(payload.rstrip().split(b'=', 1)[-1], 'ascii')
decode_version(p) == ascii_decode(split_eq_last(rstrip(p)))

\* One character of str.encode('utf-8'); a surrogate (0xD800..0xDFFF) cannot
\* be encoded and gives <<>> here.
utf8_char(cp) ==
    IF cp < 128 THEN <<cp>>
    ELSE IF cp < 2048 THEN <<192 + (cp \div 64), 128 + (cp % 64)>>
    ELSE IF cp >= 55296 /\ cp <= 57343 THEN <<>>
    ELSE IF cp < 65536
        THEN <<224 + (cp \div 4096), 128 + ((cp \div 64) % 64),
               128 + (cp % 64)>>
    ELSE <<240 + (cp \div 262144), 128 + ((cp \div 4096) % 64),
           128 + ((cp \div 64) % 64), 128 + (cp % 64)>>

\* name.encode('utf-8'): the bytes, or UnicodeEncodeError
RECURSIVE utf8_encode(_)
utf8_encode(cps) ==
    IF cps = <<>> THEN Ok(<<>>)
    ELSE IF utf8_char(cps[1]) = <<>> THEN Raise("UnicodeEncodeError")
    ELSE LET rest == utf8_encode(Suffix(cps, 1))
         IN  IF rest.kind = "raise" THEN rest
             ELSE Ok(utf8_char(cps[1]) \o rest.val)

\* Mutation: the byte written is one less than the value.
byte_payload_OffByOne(v) ==
    IF v - 1 \in 0..255 THEN Ok(<<v - 1>>) ELSE Raise("ValueError")

\* bytes([v]): ValueError unless v is in range(256)
byte_payload(v) == IF v \in 0..255 THEN Ok(<<v>>) ELSE Raise("ValueError")

\* int(payload[0])
decode_byte(p) == IF p = <<>> THEN Raise("IndexError") ELSE Ok(<<p[1]>>)

\* Role(b): members 0..8, ValueError otherwise
RoleValues == 0..8

\* Role(payload[0]): IndexError on an empty payload
decode_role(p) ==
    IF p = <<>> THEN Raise("IndexError")
    ELSE IF p[1] \in RoleValues THEN Ok(<<p[1]>>)
    ELSE Raise("ValueError")

\* PasswordType(b): members 0..2
PasswordTypeValues == 0..2

\* Mutation: BaudRate gets members for the ordinals 0 and 1.
BaudRateValues_FromZero == 0..8

\* BaudRate(b): members 2..8
BaudRateValues == 2..8

\* Enum(value) by value: the member with that value, ValueError when none.
\* A member is written as its value.
enum_by_value(members, b) ==
    IF b \in members THEN Ok(<<b>>) ELSE Raise("ValueError")

\* PasswordType(payload[0])
decode_password_type(p) ==
    IF p = <<>> THEN Raise("IndexError")
    ELSE enum_by_value(PasswordTypeValues, p[1])

\* BaudRate(payload[0])
decode_baud_rate(p) ==
    IF p = <<>> THEN Raise("IndexError")
    ELSE enum_by_value(BaudRateValues, p[1])

\* KeyParam(*struct.unpack('>HBB', payload))
decode_key_param(p) ==
    IF Len(p) # 4 THEN Raise("struct.error")
    ELSE Ok(<<p[1] * 256 + p[2], p[3], p[4]>>)

\* LearnerParam(*struct.unpack('>BH', payload))
decode_learner_param(p) ==
    IF Len(p) # 3 THEN Raise("struct.error")
    ELSE Ok(<<p[1], p[2] * 256 + p[3]>>)

\* What the accessor named op makes of the payload that read() returned.
\* "read" is the cache's own read(), which returns the payload as it is.
DecodeResult(op, p) ==
    CASE op = "read_broadcast_name" -> utf8_decode(p)
      [] op = "read_module_software_version" -> decode_version(p)
      [] op = "read_role"           -> decode_role(p)
      [] op = "read_password_type"  -> decode_password_type(p)
      [] op = "read_baud_rate"      -> decode_baud_rate(p)
      [] op = "read_tx_power"       -> decode_byte(p)
      [] op = "read_key_param"      -> decode_key_param(p)
      [] op = "read_learner_param"  -> decode_learner_param(p)
      [] OTHER                      -> Ok(p)

\* Mutation: the lower bound is off by one.
SlotIndexOk_FromZero(index) == 0 <= index /\ index <= 5

\* assert 1 <= index <= 5
SlotIndexOk(index) == 1 <= index /\ index <= 5

\* ------------------------------------------------------------------- state
VARIABLES
    pc,          \* "out": constructed, "idle": inside the with block, between
                 \* calls, "run": inside adp.run() of a wait, "exited"
    cb,          \* the characteristic's callback is self._on_props_changed
    notifying,   \* start_notify() is in effect
    values,      \* self._values: command code -> payload
    sent,        \* frames passed to self._mesh.write_value by the current call
    tosrc,       \* _wait_with_timeout's tosrc: 0 is None, else the source id
    armed,       \* the GLib timeout source of the wait exists
    timedout,    \* _wait_with_timeout's timedout list is non-empty
    quitReq,     \* adp.quit() was called since adp.run() was entered
    cur,         \* the call in progress, or the last one made
    got,         \* <<payload>> once read() has returned payload, else <<>>
    res,         \* what the last call gave its caller
    fresh,       \* history: the handler recorded an entry for cur.code after
                 \* read() wrote its request
    recd,        \* history of the call in cur: how many values for cur.code
                 \* the handler has recorded after read() wrote its request
                 \* (2 stands for 2 or more), and the payload of the last
    ev           \* history: the step taken last

vars == <<pc, cb, notifying, values, sent, tosrc, armed, timedout, quitReq,
          cur, got, res, fresh, recd, ev>>

\* seen: the handler got as far as the value v
Event(type) == [type |-> type, seen |-> FALSE, v |-> <<>>, wasArmed |-> FALSE]

\* arg: the accessor's argument (slot index, rate, member value, power);
\* data: write()'s data, or the name given to write_broadcast_name, as code
\* points;
\* stale: the cache held an entry for code when the call was made
NoCall == [op |-> "none", code |-> 0, timeout |-> 0, arg |-> 0,
           data |-> <<>>, stale |-> FALSE]

NoneRecorded == [n |-> 0, last |-> <<>>]

\* JDYCharacteristicValueCache.__init__: _resolve_gatt() has found the
\* characteristic, the cache is empty, nothing is subscribed.
Init ==
    /\ pc = "out"
    /\ cb = FALSE
    /\ notifying = FALSE
    /\ values = EmptyCache
    /\ sent = <<>>
    /\ tosrc = 0
    /\ armed = FALSE
    /\ timedout = FALSE
    /\ quitReq = FALSE
    /\ cur = NoCall
    /\ got = <<>>
    /\ res = NoResult
    /\ fresh = FALSE
    /\ recd = NoneRecorded
    /\ ev = Event("init")

\* ----------------------------------------------------------- session scope
\* Device.__enter__ -> JDYCharacteristicValueCache.__enter__: self._mesh is
\* set, so start_notify() and add_characteristic_cb(self._on_props_changed).
Enter ==
    /\ pc \in {"out", "exited"}
    /\ pc' = "idle"
    /\ notifying' = TRUE
    /\ cb' = TRUE
    /\ cur' = NoCall
    /\ got' = <<>>
    /\ res' = NoResult
    /\ sent' = <<>>
    /\ recd' = NoneRecorded
    /\ ev' = Event("enter")
    /\ UNCHANGED <<values, tosrc, armed, timedout, quitReq, fresh>>

\* Mutation: the teardown is skipped when an exception leaves the block.
ExitCallback_OnlyOnSuccess(exc) == exc # ""

\* add_characteristic_cb(None) in __exit__(*args): the callback afterwards.
\* exc is the exception passing through the with block ("" when none).
ExitCallback(exc) == FALSE

\* stop_notify() in __exit__(*args): the subscription afterwards.
ExitNotifying(exc) == FALSE

\* Device.__exit__ -> JDYCharacteristicValueCache.__exit__, run by the with
\* statement when the block ends or an exception leaves it.
Exit ==
    /\ pc = "idle"
    /\ pc' = "exited"
    /\ cb' = ExitCallback(res.exc)
    /\ notifying' = ExitNotifying(res.exc)
    /\ ev' = Event("exit")
    /\ UNCHANGED <<values, sent, tosrc, armed, timedout, quitReq, cur, got,
                   res, fresh, recd>>

\* --------------------------------------------------------- the wait's parts
\* Mutation: the wait leaves without removing its source.
WaitFinally_NoRemove(src, isArmed) == isArmed

\* finally: if tosrc: GLib.source_remove(tosrc). Whether the source exists
\* after it.
WaitFinally(src, isArmed) == IF src # 0 THEN FALSE ELSE isArmed

\* Mutation: read() keeps the entry it finds.
ReadClear_NoPop(vals, cmd) == vals

\* self._values.pop(cmd, None) in read()
ReadClear(vals, cmd) == Pop(vals, cmd)

\* Mutation: read() writes its request twice.
ReadRequest_Twice(cmd) == <<pack_H(cmd), pack_H(cmd)>>

\* self._mesh.write_value(cmdb) in read(): the frames read() writes
ReadRequest(cmd) == <<pack_H(cmd)>>

\* Mutation: read() pops the entry it returns.
ValuesAfterRead_Pop(vals, cmd) == Pop(vals, cmd)

\* return self._values[cmd]: the cache after read() has returned
ValuesAfterRead(vals, cmd) == vals

\* Mutation: write() empties the cache.
WriteClear_All(vals, cmd) == EmptyCache

\* self._values.pop(cmd, None) in write()
WriteClear(vals, cmd) == Pop(vals, cmd)

\* Mutation: write() sends the code and the data as two frames.
WriteRequest_Split(cmd, data) == <<pack_H(cmd), data>>

\* self._mesh.write_value(cmdb + data) in write()
WriteRequest(cmd, data) == <<pack_H(cmd) \o data>>

\* Mutation: the handler tests the payload, not the whole value.
HandlerAccepts_Payload(v) == Len(v) > 2

\* `if v:` in _on_props_changed
HandlerAccepts(v) == v # <<>>

\* Mutation: the handler records the value and does not wake the loop.
HandlerQuit_Forgets(q) == q

\* self._adp.quit() at the end of _on_props_changed: the quit request after.
HandlerQuit(q) == TRUE

\* Mutation: on_timeout runs to its end.
OnTimeoutCompletes_Runs == TRUE

\* on_timeout assigns tosrc (tosrc = None) without declaring it nonlocal, so
\* tosrc is a local of on_timeout and GLib.source_remove(tosrc), which comes
\* first, reads it unbound: the callback ends there with UnboundLocalError.
OnTimeoutCompletes == FALSE

\* Mutation: the interrupt is reported as a timeout.
InterruptOutcome_AsTimeout == Raise("TimeoutError")

\* except KeyboardInterrupt: adp.quit(); raise
InterruptOutcome == Raise("KeyboardInterrupt")

\* The timeout read() passes to wait_for: timeout=read_timeout. The
\* constructor stores default_timeout in self._default_timeout, which nothing
\* reads.
EffectiveTimeout(read_timeout, default_timeout) == read_timeout

\* read(): pop, write, wait_for, return. The caller's part up to adp.run().
vc_read(op, cmd, t, arg) ==
    LET cleared == ReadClear(values, cmd)
        src     == IF EffectiveTimeout(t, DefaultTimeout) # 0 THEN 1 ELSE 0
        nowArmed == IF src # 0 THEN TRUE ELSE armed
    IN  /\ cur' = [op |-> op, code |-> cmd, timeout |-> t, arg |-> arg,
                   data |-> <<>>, stale |-> cmd \in DOMAIN values]
        /\ sent' = ReadRequest(cmd)
        /\ fresh' = FALSE
        /\ recd' = NoneRecorded
        /\ timedout' = FALSE
        /\ quitReq' = FALSE
        /\ ev' = Event("call")
        /\ IF cmd \in DOMAIN cleared
           THEN \* cond() holds at its first test: adp.run() is not entered
                /\ pc' = "idle"
                /\ got' = <<cleared[cmd]>>
                /\ res' = DecodeResult(op, cleared[cmd])
                /\ values' = ValuesAfterRead(cleared, cmd)
                /\ tosrc' = 0
                /\ armed' = WaitFinally(src, nowArmed)
           ELSE /\ pc' = "run"
                /\ got' = <<>>
                /\ res' = NoResult
                /\ values' = cleared
                /\ tosrc' = src
                /\ armed' = nowArmed
        /\ UNCHANGED <<cb, notifying>>

\* write(): pop, write, return None.
vc_write(op, cmd, data, arg) ==
    /\ cur' = [op |-> op, code |-> cmd, timeout |-> 0, arg |-> arg,
               data |-> data, stale |-> cmd \in DOMAIN values]
    /\ values' = WriteClear(values, cmd)
    /\ sent' = WriteRequest(cmd, data)
    /\ got' = <<>>
    /\ res' = Ok(<<>>)
    /\ recd' = NoneRecorded
    /\ ev' = Event("call")
    /\ UNCHANGED <<pc, cb, notifying, tosrc, armed, timedout, quitReq,
                   fresh>>

\* A failed assert: nothing but the exception.
precondition_failed(op, arg) ==
    /\ cur' = [op |-> op, code |-> 0, timeout |-> 0, arg |-> arg,
               data |-> <<>>, stale |-> FALSE]
    /\ sent' = <<>>
    /\ got' = <<>>
    /\ res' = Raise("AssertionError")
    /\ recd' = NoneRecorded
    /\ ev' = Event("call")
    /\ UNCHANGED <<pc, cb, notifying, values, tosrc, armed, timedout, quitReq,
                   fresh>>

\* ------------------------------------------------------- the caller's calls
\* JDYCharacteristicValueCache.read(cmd, read_timeout)
Read ==
    /\ pc = "idle"
    /\ \E cmd \in RawCodes, t \in Timeouts : vc_read("read", cmd, t, 0)

\* JDYCharacteristicValueCache.write(cmd, data)
Write ==
    /\ pc = "idle"
    /\ \E cmd \in RawCodes, data \in Payloads : vc_write("write", cmd, data, 0)

\* Device.read_broadcast_name
ReadBroadcastName ==
    /\ pc = "idle"
    /\ vc_read("read_broadcast_name", C_BROADCAST_NAME, 0, 0)

\* Device.read_role
ReadRole ==
    /\ pc = "idle"
    /\ vc_read("read_role", C_ROLE, 0, 0)

\* Device.read_key_param
ReadKeyParam ==
    /\ pc = "idle"
    /\ \E index \in SlotIndexes :
          IF SlotIndexOk(index)
          THEN vc_read("read_key_param", KeySlotCode(index), 0, index)
          ELSE precondition_failed("read_key_param", index)

\* Device.read_learner_param
ReadLearnerParam ==
    /\ pc = "idle"
    /\ \E index \in SlotIndexes :
          IF SlotIndexOk(index)
          THEN vc_read("read_learner_param", LearnerSlotCode(index), 0, index)
          ELSE precondition_failed("read_learner_param", index)

\* Device.write_baud_rate
WriteBaudRate ==
    /\ pc = "idle"
    /\ \E rate \in WrittenRates :
          vc_write("write_baud_rate", C_BAUD_RATE_SET, <<rate>>, rate)

\* ------------------------------------------- dispatched while adp.run() runs
GATT_CHRC_IFACE == "org.bluez.GattCharacteristic1"

Interfaces == {GATT_CHRC_IFACE, "org.bluez.Device1"}

\* Where the signal carries the value: in changed_props, in inv_props (the
\* handler then calls read_raw_value()), or nowhere.
ValueSources == {"changed", "invalidated", "none"}

\* A well-formed key-slot response: address 1, pin 2, full duplex.
KeySlotSample == <<0, 1, 2, 1>>

\* Values of the characteristic: empty, a lone byte, a code with a payload,
\* and the answer of key slot 1.
NotifValues ==
    {<<>>, <<193>>, pack_H(C_MESH_MCLSS + 1) \o KeySlotSample}
        \cup {pack_H(c) \o p : c \in NotifCodes, p \in Payloads}

\* _on_props_changed(iname, changed_props, inv_props) with the value v.
\* A value of one byte makes struct.unpack raise struct.error inside the
\* signal handler, before the store: the cache and the loop are left alone.
on_props_changed(iname, has, v) ==
    IF /\ iname = GATT_CHRC_IFACE
       /\ has # "none"
       /\ HandlerAccepts(v)
       /\ unpack_H_ok(Prefix(v, 2))
    THEN /\ values' = Store(values, unpack_H(Prefix(v, 2)), Suffix(v, 2))
         /\ quitReq' = HandlerQuit(quitReq)
         /\ fresh' = (fresh \/ unpack_H(Prefix(v, 2)) = cur.code)
         /\ recd' = IF unpack_H(Prefix(v, 2)) = cur.code
                    THEN [n |-> IF recd.n = 0 THEN 1 ELSE 2,
                          last |-> Suffix(v, 2)]
                    ELSE recd
    ELSE UNCHANGED <<values, quitReq, fresh, recd>>

\* A PropertiesChanged signal reaches the registered handler. The handler
\* looks at the value only when the signal is the characteristic's and names
\* Value; otherwise it returns at once.
Notify ==
    /\ pc = "run"
    /\ cb
    /\ \E iname \in Interfaces, has \in ValueSources :
          IF iname = GATT_CHRC_IFACE /\ has # "none"
          THEN \E v \in NotifValues :
                  /\ on_props_changed(iname, has, v)
                  /\ ev' = [type |-> "notify", seen |-> TRUE, v |-> v,
                            wasArmed |-> armed]
          ELSE /\ on_props_changed(iname, has, <<>>)
               /\ ev' = [Event("notify") EXCEPT !.wasArmed = armed]
    /\ UNCHANGED <<pc, cb, notifying, sent, tosrc, armed, timedout, cur, got,
                   res>>

\* The timeout source fires and GLib calls on_timeout. The callback does not
\* return True, so GLib destroys the source whether or not it completed.
TimerFire ==
    /\ pc = "run"
    /\ armed
    /\ armed' = FALSE
    /\ IF OnTimeoutCompletes
       THEN timedout' = TRUE /\ quitReq' = TRUE /\ tosrc' = tosrc
       ELSE UNCHANGED <<timedout, quitReq, tosrc>>
    /\ ev' = [Event("timer") EXCEPT !.wasArmed = TRUE]
    /\ UNCHANGED <<pc, cb, notifying, values, sent, cur, got, res,
                   fresh, recd>>

\* adp.run() returns after adp.quit(): `if timedout: raise`, then the while
\* loop tests cond() again and either leaves through finally or runs again.
LoopReturn ==
    /\ pc = "run"
    /\ quitReq
    /\ ev' = [Event("wake") EXCEPT !.wasArmed = armed]
    /\ IF timedout
       THEN /\ pc' = "idle"
            /\ res' = Raise("TimeoutError")
            /\ armed' = WaitFinally(tosrc, armed)
            /\ tosrc' = 0
            /\ timedout' = FALSE
            /\ quitReq' = FALSE
            /\ UNCHANGED <<values, got>>
       ELSE IF cur.code \in DOMAIN values
       THEN /\ pc' = "idle"
            /\ got' = <<values[cur.code]>>
            /\ res' = DecodeResult(cur.op, values[cur.code])
            /\ values' = ValuesAfterRead(values, cur.code)
            /\ armed' = WaitFinally(tosrc, armed)
            /\ tosrc' = 0
            /\ quitReq' = FALSE
            /\ UNCHANGED timedout
       ELSE /\ quitReq' = FALSE
            /\ UNCHANGED <<pc, values, got, res, armed, tosrc, timedout>>
    /\ UNCHANGED <<cb, notifying, sent, cur, fresh, recd>>

\* SIGINT while adp.run() runs: run() raises KeyboardInterrupt, the except
\* clause calls adp.quit() and re-raises, finally removes the source.
Interrupt ==
    /\ pc = "run"
    /\ pc' = "idle"
    /\ res' = InterruptOutcome
    /\ armed' = WaitFinally(tosrc, armed)
    /\ tosrc' = 0
    /\ timedout' = FALSE
    /\ quitReq' = FALSE
    /\ ev' = [Event("interrupt") EXCEPT !.wasArmed = armed]
    /\ UNCHANGED <<cb, notifying, values, sent, cur, got, fresh, recd>>

Next ==
    \/ Enter
    \/ Exit
    \/ Read
    \/ Write
    \/ ReadBroadcastName
    \/ ReadRole
    \/ ReadKeyParam
    \/ ReadLearnerParam
    \/ WriteBaudRate
    \/ Notify
    \/ TimerFire
    \/ LoopReturn
    \/ Interrupt

Spec == Init /\ [][Next]_vars

\* adp.run() returns once adp.quit() has been called: the loop ends with the
\* iteration that is under way.
SpecLive == Spec /\ WF_vars(LoopReturn)

\* --------------------------------------------------- the accessors' codecs
\* The accessors' own work, apart from the cache: what an accessor makes of
\* the payload read() hands it. got holds that payload, cur the accessor,
\* res what the accessor gives its caller; pc is "codec" before the accessor
\* has worked on its input and "codec_done" after.
Bytes == 0..255

EnumReaders == {"read_role", "read_password_type", "read_baud_rate"}

CodecCall(op, arg, data) ==
    [op |-> op, code |-> 0, timeout |-> 0, arg |-> arg, data |-> data,
     stale |-> FALSE]

\* Payloads handed to the enum accessors: every single byte, and none.
EnumInputs ==
    {<<"decode", CodecCall(op, 0, <<>>), <<p>>>> :
        op \in EnumReaders, p \in {<<b>> : b \in Bytes} \cup {<<>>}}

\* Bytes of module-version payloads: '=', space, newline, 'A', a non-ASCII byte.
VersionBytes == {61, 32, 10, 65, 200}

VersionInputs ==
    {<<"decode", CodecCall("read_module_software_version", 0, <<>>), <<p>>>> :
        p \in SeqsUpTo(VersionBytes, MaxVersionLen)}

\* The writable registers with a reader: mutator -> accessor.
ReaderOf(op) ==
    CASE op = "write_password_type"  -> "read_password_type"
      [] op = "write_baud_rate"      -> "read_baud_rate"
      [] op = "write_role"           -> "read_role"
      [] op = "write_tx_power"       -> "read_tx_power"
      [] op = "write_broadcast_name" -> "read_broadcast_name"

\* The payload the mutator op builds from its argument.
EncodeArg(op, arg, name) ==
    IF op = "write_broadcast_name" THEN utf8_encode(name) ELSE byte_payload(arg)

\* Characters of names: 'J', e acute, the euro sign, an emoji, a surrogate.
NameChars == {74, 233, 8364, 128512, 55296}

\* Values given to the mutators: every member of the three enums, every TX
\* power 0..255, every name of at most MaxNameLen characters.
RoundTripInputs ==
    {<<"roundtrip", CodecCall("write_password_type", v, <<>>), <<>>>> :
        v \in PasswordTypeValues}
    \cup {<<"roundtrip", CodecCall("write_baud_rate", v, <<>>), <<>>>> :
        v \in BaudRateValues}
    \cup {<<"roundtrip", CodecCall("write_role", v, <<>>), <<>>>> :
        v \in RoleValues}
    \cup {<<"roundtrip", CodecCall("write_tx_power", v, <<>>), <<>>>> :
        v \in Bytes}
    \cup {<<"roundtrip", CodecCall("write_broadcast_name", 0, n), <<>>>> :
        n \in SeqsUpTo(NameChars, MaxNameLen)}

\* Every register, for the look-up of its command code.
CodeInputs == {<<"code", CodecCall(r[1], r[2], <<>>), <<>>>> : r \in Registers}

CodecInputs ==
    EnumInputs \cup VersionInputs \cup CodeInputs \cup RoundTripInputs

InitCodec ==
    /\ pc = "codec"
    /\ cb = FALSE
    /\ notifying = FALSE
    /\ values = EmptyCache
    /\ sent = <<>>
    /\ tosrc = 0
    /\ armed = FALSE
    /\ timedout = FALSE
    /\ quitReq = FALSE
    /\ res = NoResult
    /\ fresh = FALSE
    /\ recd = NoneRecorded
    /\ \E inp \in CodecInputs :
          /\ ev = Event(inp[1])
          /\ cur = inp[2]
          /\ got = inp[3]

\* The accessor decodes the payload read() returned.
CodecDecode ==
    /\ pc = "codec"
    /\ ev.type = "decode"
    /\ res' = DecodeResult(cur.op, got[1])
    /\ pc' = "codec_done"
    /\ UNCHANGED <<cb, notifying, values, sent, tosrc, armed, timedout,
                   quitReq, cur, got, fresh, recd, ev>>

\* The accessor or mutator takes the command code of its register.
CodecCode ==
    /\ pc = "codec"
    /\ ev.type = "code"
    /\ cur' = [cur EXCEPT !.code = RegisterCode(cur.op, cur.arg)]
    /\ pc' = "codec_done"
    /\ UNCHANGED <<cb, notifying, values, sent, tosrc, armed, timedout,
                   quitReq, got, res, fresh, recd, ev>>

\* The mutator builds its payload and hands code and payload to write().
CodecEncode ==
    /\ pc = "codec"
    /\ ev.type = "roundtrip"
    /\ LET enc == EncodeArg(cur.op, cur.arg, cur.data)
       IN  IF enc.kind = "raise"
           THEN /\ res' = enc
                /\ pc' = "codec_done"
                /\ UNCHANGED sent
           ELSE /\ sent' = WriteRequest(RegisterCode(cur.op, 0), enc.val)
                /\ pc' = "codec_sent"
                /\ UNCHANGED res
    /\ UNCHANGED <<cb, notifying, values, tosrc, armed, timedout, quitReq,
                   cur, got, fresh, recd, ev>>

\* The payload of the frame written is handed to the register's accessor.
CodecReadBack ==
    /\ pc = "codec_sent"
    /\ got' = <<Suffix(sent[1], 2)>>
    /\ res' = DecodeResult(ReaderOf(cur.op), Suffix(sent[1], 2))
    /\ pc' = "codec_done"
    /\ UNCHANGED <<cb, notifying, values, sent, tosrc, armed, timedout,
                   quitReq, cur, fresh, recd, ev>>

NextCodec ==
    \/ CodecDecode
    \/ CodecCode
    \/ CodecEncode
    \/ CodecReadBack

SpecCodec == InitCodec /\ [][NextCodec]_vars

\* ----------------------------------------------------------------- claims
ReadOps == {"read", "read_broadcast_name", "read_role", "read_key_param",
            "read_learner_param"}

WriteOps == {"write", "write_baud_rate"}

SlotOps == {"read_key_param", "read_learner_param"}

\* struct.pack('>H', code), written out: high byte, then low byte
BigEndian(code) == <<code \div 256, code % 256>>

\* C1: the payload read(c) returns was recorded by the handler after read(c)
\* wrote its request; an entry that was in the cache when read(c) was called
\* is never what read(c) returns.
C1_CacheFreshness == (got # <<>>) => fresh

\* read(c) was called with an entry for c in the cache and has returned.
C1_Witness == got # <<>> /\ cur.stale /\ fresh /\ res.kind = "ok"

\* C2 as stated: a notification of a 2-byte code c and an empty payload
\* records nothing for c, and read(c) never returns an empty payload.
C2_EmptyPayloadIgnored ==
    /\ (ev.type = "notify" /\ ev.seen /\ Len(ev.v) = 2)
          => ~(unpack_H(ev.v) \in DOMAIN values /\ values[unpack_H(ev.v)] = <<>>)
    /\ got # << <<>> >>

\* C2 amended: the handler ignores a value that is empty as a whole (no code,
\* no payload): it records nothing and does not call adp.quit(). A value of a
\* 2-byte code c and an empty payload is recorded as the entry of c with the
\* empty payload and adp.quit() is called; a read(c) that is waiting then
\* returns the empty payload.
C2_EmptyValueIgnored ==
    [][ /\ (ev'.type = "notify" /\ ev'.seen /\ ev'.v = <<>>)
            => (values' = values /\ quitReq' = quitReq)
        /\ (ev'.type = "notify" /\ ev'.seen /\ Len(ev'.v) = 2)
            => (/\ values' = Store(values, unpack_H(ev'.v), <<>>)
                /\ quitReq')
        /\ (/\ ev.type = "notify" /\ ev.seen /\ Len(ev.v) = 2
            /\ unpack_H(ev.v) = cur.code
            /\ ev'.type = "wake")
            => got' = << <<>> >>
      ]_vars

\* read(c) has returned an empty payload after a code-only notification.
C2_Witness == got = << <<>> >> /\ ev.type = "wake" /\ pc = "idle"

\* C3 as stated: after a successful read(c) the cache holds no entry for c.
C3_ReadConsumes == (got # <<>>) => cur.code \notin DOMAIN values

\* C3 amended: a successful read(c) returns the payload of the entry for c
\* and leaves the entry in the cache: immediately after it the cache holds
\* the entry for c, with the payload returned.
C3_ReadKeepsEntry ==
    (got # <<>>) => (cur.code \in DOMAIN values /\ values[cur.code] = got[1])

\* The cache's read() has returned a payload to its caller.
C3_Witness == got # <<>> /\ cur.op = "read" /\ res = Ok(got[1])

\* The timer of the wait in progress has fired and no notification for the
\* awaited code has been recorded since the request was written.
TimerFiredUnanswered ==
    pc = "run" /\ cur.timeout # 0 /\ ~armed /\ ~fresh

\* C4: when the timer of read(c, timeout=t) fires with no notification for c
\* delivered, the wait is marked timed out and the loop is told to quit, so
\* that read fails with the timeout error instead of waiting on.
C4_TimeoutRaised == TimerFiredUnanswered => (timedout /\ quitReq)

\* C5: when the wait is not in progress (it has returned, or raised), its
\* timeout source does not exist.
C5_TimerDisarmed == (pc # "run") => ~armed

\* A wait with an armed timer was satisfied and has returned.
C5_Witness ==
    pc = "idle" /\ ev.type = "wake" /\ ev.wasArmed /\ got # <<>> /\ ~armed

\* C6: after the with block is left, on any path, the handler is not
\* registered and notifications are stopped.
C6_ScopeTornDown == (pc = "exited") => (~cb /\ ~notifying)

\* The block was left by an exception raised inside it.
C6_Witness == pc = "exited" /\ res.kind = "raise" /\ ~cb /\ ~notifying

\* C7: an interrupt during a wait reaches read's caller as that interrupt,
\* with no value returned, and the loop is no longer driven.
C7_InterruptPropagates ==
    (ev.type = "interrupt")
        => (/\ res = Raise("KeyboardInterrupt")
            /\ got = <<>>
            /\ pc = "idle"
            /\ ~quitReq)

\* A wait with an armed timer was interrupted.
C7_Witness == ev.type = "interrupt" /\ ev.wasArmed /\ res.kind = "raise"

\* C8: write(c, payload) leaves no entry for c, has written the one frame
\* code-then-payload, and returns without entering the loop;
\* write_baud_rate(B115200) writes A5 E5 08.
C8_WriteFireAndForget ==
    (ev.type = "call" /\ cur.op \in WriteOps)
        => (/\ sent = << BigEndian(cur.code) \o cur.data >>
            /\ cur.code \notin DOMAIN values
            /\ pc = "idle"
            /\ ~quitReq
            /\ res = Ok(<<>>)
            /\ (cur.op = "write_baud_rate" /\ cur.arg = 8
                   => sent = << <<165, 229, 8>> >>))

\* write_baud_rate(B115200) was called with an entry for 0xA5E5 cached.
C8_Witness ==
    ev.type = "call" /\ cur.op = "write_baud_rate" /\ cur.arg = 8 /\ cur.stale

\* A read call whose precondition held, so that it reached the cache's read().
ReadIssued ==
    cur.op \in ReadOps /\ ~(res.kind = "raise" /\ res.exc = "AssertionError")

\* C9: while a read(c) waits and after it has ended, however it ended, the
\* frames it wrote are exactly one: the big-endian code with no payload.
C9_ReadWritesOnce == ReadIssued => sent = << BigEndian(cur.code) >>

\* A read whose timer has fired was woken up, found nothing and went back to
\* waiting.
C9_Witness ==
    /\ pc = "run" /\ ev.type = "wake" /\ cur.timeout # 0 /\ ~armed
    /\ Len(sent) = 1

\* C10: read_key_param and read_learner_param with an index outside [1,5]
\* raise before any I/O: no frame, the cache as it was, the loop not entered.
C10_SlotBounds ==
    [][ (ev'.type = "call" /\ cur'.op \in SlotOps /\ cur'.arg \notin 1..5)
            => (/\ res' = Raise("AssertionError")
                /\ sent' = <<>>
                /\ values' = values
                /\ pc' = "idle"
                /\ UNCHANGED <<quitReq, armed, cb, notifying>>)
      ]_vars

\* read_learner_param(6) was refused while the cache held entries.
C10_Witness ==
    /\ cur.op = "read_learner_param" /\ cur.arg = 6
    /\ res = Raise("AssertionError") /\ values # EmptyCache /\ sent = <<>>

\* C11: an enum accessor raises ValueError for every byte that is no member's
\* value and returns the member of that value otherwise: Role has 0..8,
\* PasswordType 0..2, BaudRate 2..8; no byte yields a default member.
C11_EnumDecode ==
    (/\ pc = "codec_done" /\ ev.type = "decode"
     /\ cur.op \in EnumReaders /\ got[1] # <<>>)
        => LET b == got[1][1]
               members == CASE cur.op = "read_role"          -> 0..8
                            [] cur.op = "read_password_type" -> 0..2
                            [] cur.op = "read_baud_rate"     -> 2..8
           IN  /\ (b \in members => res = Ok(<<b>>))
               /\ (b \notin members => res = Raise("ValueError"))

\* read_baud_rate was handed the byte 1, which is below B2400, and refused it.
C11_Witness ==
    /\ pc = "codec_done" /\ ev.type = "decode"
    /\ cur.op = "read_baud_rate" /\ got = << <<1>> >>
    /\ res = Raise("ValueError")

\* The payload without its trailing whitespace: the longest prefix of p that
\* does not end in a whitespace byte.
Trimmed(p) ==
    LET ends == {n \in 0..Len(p) : n = 0 \/ p[n] \notin {9, 10, 11, 12, 13, 32}}
        n == CHOOSE m \in ends : \A k \in ends : k <= m
    IN  SubSeq(p, 1, n)

EqPositions(t) == {i \in 1..Len(t) : t[i] = 61}

\* What follows the '=' at the position chosen by last (the last one) or not
\* (the first one); all of t when t has no '='.
AfterEq(t, last) ==
    IF EqPositions(t) = {} THEN t
    ELSE LET k == CHOOSE i \in EqPositions(t) :
                     \A j \in EqPositions(t) : IF last THEN j <= i ELSE i <= j
         IN  SubSeq(t, k + 1, Len(t))

VersionDecoded ==
    /\ pc = "codec_done" /\ ev.type = "decode"
    /\ cur.op = "read_module_software_version"

\* C12 as stated: the text returned is the text after the last '=' of the
\* trimmed payload, and has no '=' in it.
C12_AfterLastEq ==
    (VersionDecoded /\ res.kind = "ok")
        => (/\ res.val = AfterEq(Trimmed(got[1]), TRUE)
            /\ EqPositions(res.val) = {})

\* C12 amended: the result is the text after the FIRST '=' of the trimmed
\* payload (all of it when it has no '='), so that a payload with two or more
\* '=' gives a result that contains '='; when that text has a byte above 127
\* the accessor raises UnicodeDecodeError instead of returning.
C12_AfterFirstEq ==
    VersionDecoded
        => LET text == AfterEq(Trimmed(got[1]), FALSE)
           IN  /\ (\A i \in 1..Len(text) : text[i] <= 127) => res = Ok(text)
               /\ (\E i \in 1..Len(text) : text[i] > 127)
                     => res = Raise("UnicodeDecodeError")
               /\ (res.kind = "ok" /\ Cardinality(EqPositions(Trimmed(got[1]))) >= 2)
                     => EqPositions(res.val) # {}

\* The payload "=A=" was decoded to "A=".
C12_Witness ==
    VersionDecoded /\ got = << <<61, 65, 61>> >> /\ res = Ok(<<65, 61>>)

\* C13: the command code of a register is the code of no other register; the
\* key slots have 0xC303 + i and the learner slots 0xC30A + i, i in 1..5.
C13_CodesDistinct ==
    (pc = "codec_done" /\ ev.type = "code")
        => (/\ \A r \in Registers :
                  r # <<cur.op, cur.arg>> => RegisterCode(r[1], r[2]) # cur.code
            /\ (cur.op = "read_key_param" => cur.code = 49923 + cur.arg)
            /\ (cur.op = "read_learner_param" => cur.code = 49930 + cur.arg))

\* Key slot 5 has the code 0xC308, next to the code of read_subtype.
C13_Witness ==
    /\ pc = "codec_done" /\ ev.type = "code"
    /\ cur.op = "read_key_param" /\ cur.arg = 5 /\ cur.code = 49928

\* C14: the accessor of a writable register, given the payload its mutator
\* wrote for the value v, returns v: a member of PasswordType, BaudRate or
\* Role, a TX power 0..255, a name.
C14_RoundTrip ==
    (pc = "codec_done" /\ ev.type = "roundtrip" /\ got # <<>>)
        => res = Ok(IF cur.op = "write_broadcast_name"
                    THEN cur.data ELSE <<cur.arg>>)

\* The name "J" followed by the euro sign went out as 4A E2 82 AC and came
\* back as the same two characters.
C14_Witness ==
    /\ pc = "codec_done" /\ ev.type = "roundtrip"
    /\ cur.op = "write_broadcast_name" /\ cur.data = <<74, 8364>>
    /\ got = << <<74, 226, 130, 172>> >> /\ res = Ok(<<74, 8364>>)

\* A read(c) is waiting and the handler has recorded a notification with the
\* code c since the request went out.
Answered == pc = "run" /\ recd.n > 0

\* C15: when a notification with the code c is handled while read(c) waits,
\* the value is recorded and the loop is asked to quit; the wait then tests
\* its condition again and read(c) returns a payload recorded for c, unless
\* an interrupt ends the wait first. It does not stay blocked.
C15_ResponseLiveness ==
    /\ [](Answered => (quitReq /\ cur.code \in DOMAIN values))
    /\ Answered ~> (/\ pc = "idle"
                    /\ \/ ev.type = "wake" /\ got = <<recd.last>>
                       \/ ev.type = "interrupt")

\* read(c) waited, was answered with a payload of at least one byte and
\* returned it.
C15_Witness ==
    /\ pc = "idle" /\ ev.type = "wake" /\ recd.n > 0
    /\ got = <<recd.last>> /\ Len(recd.last) > 0

\* The code whose entry the step taken last may have changed: the code of the
\* frame the handler unpacked, the code of the call; -1 when there is none.
TouchedCode ==
    CASE ev.type = "notify" /\ ev.seen /\ unpack_H_ok(Prefix(ev.v, 2))
            -> unpack_H(Prefix(ev.v, 2))
      [] ev.type \in {"call", "wake"} -> cur.code
      [] OTHER -> -1

\* C16: a step changes the entry of no code but the one it is about: the
\* handler that of the frame's code, read(c) and write(c) that of c. A
\* waiting read(c) that is woken up with nothing recorded for c since its
\* request goes on waiting.
C16_PerCodeIndependence ==
    [][ /\ \A k \in (DOMAIN values) \cup (DOMAIN values') :
              k # TouchedCode'
                  => (/\ k \in DOMAIN values
                      /\ k \in DOMAIN values'
                      /\ values'[k] = values[k])
        /\ (ev'.type = "notify" /\ ev'.seen /\ pc = "run"
                /\ TouchedCode' # cur.code)
              => (pc' = "run" /\ recd' = recd /\ got' = <<>>)
        /\ (ev'.type = "wake" /\ recd.n = 0)
              => (pc' = "run" /\ got' = <<>>)
      ]_vars

\* read(c) was woken up by a notification for another code, which is cached,
\* and went on waiting.
C16_Witness ==
    /\ pc = "run" /\ ev.type = "wake" /\ recd.n = 0
    /\ values # EmptyCache /\ cur.code \notin DOMAIN values

\* C17: each notification with the code c handled while read(c) waits puts
\* its payload in the place of the entry, and read(c) returns the payload of
\* the notification handled last.
C17_LastRecordedWins ==
    /\ Answered => values[cur.code] = recd.last
    /\ (pc = "idle" /\ ev.type = "wake" /\ recd.n > 0) => got = <<recd.last>>

\* Two or more notifications for c were handled before read(c) returned.
C17_Witness ==
    pc = "idle" /\ ev.type = "wake" /\ recd.n = 2 /\ got = <<recd.last>>

\* The read accessors of Device: they call read(cmd) with no read_timeout.
AccessorOps == ReadOps \ {"read"}

\* C18: the wait of a read accessor, called without a timeout of its own on a
\* Device made with default_timeout=1, has a timeout source, so that it ends
\* with a timeout error when the device does not answer.
C18_DefaultTimeoutApplies ==
    (pc = "run" /\ cur.op \in AccessorOps /\ DefaultTimeout # 0) => tosrc # 0

\* C19: a read(c) that ends with a timeout error leaves no entry for c in the
\* cache; when its timer has fired and a notification for c has been handled
\* before adp.run() returned, read(c) returns the recorded payload.
C19_NoTimeoutWhenPresent ==
    /\ (pc = "idle" /\ ev.type = "wake" /\ res = Raise("TimeoutError"))
          => cur.code \notin DOMAIN values
    /\ (pc = "idle" /\ ev.type = "wake" /\ cur.timeout # 0 /\ ~ev.wasArmed
            /\ recd.n > 0)
          => (got = <<recd.last>> /\ res = DecodeResult(cur.op, recd.last))

\* The timer of read(c, timeout) fired, a notification for c was handled,
\* and the read returned the payload.
C19_Witness ==
    /\ pc = "idle" /\ ev.type = "wake" /\ cur.timeout # 0 /\ ~ev.wasArmed
    /\ recd.n > 0 /\ got = <<recd.last>> /\ res.kind = "ok"

====
